---- MODULE Spec2Model ----
(***************************************************************************)
(* BollingerBandsForexAlgorithm (src/BollingerBand.py): a mean-reversion   *)
(* rule on a rolling band.  Initialize resolves three parameters, creates  *)
(* the band indicator and sets the warm-up; the host then delivers one     *)
(* price per minute and runs the scheduled TradeLogic callback.            *)
(*                                                                         *)
(* The indicator itself, the warm-up flag, the price feed and the          *)
(* portfolio belong to the host framework; they are modelled from the      *)
(* specification (sections 3, 4.1 and 6).                                  *)
(*                                                                         *)
(* Numbers.  Prices are integers.  A band value is the real number         *)
(* (rat + irr * sqrt(rad)) / den, kept as the record of its four integer   *)
(* parts with den > 0, so that comparisons are exact and no rounding is    *)
(* introduced by the model.                                                *)
(***************************************************************************)
EXTENDS Integers, Sequences, FiniteSets

VARIABLES
    params,        \* the raw configuration GetParameter answers from
    phase,         \* "start" (before Initialize), "running", "failed"
    error,         \* the exception that ended Initialize, "" if none
    currencyPair,  \* self.currencyPair
    bb_period,     \* self.bb_period
    bb_stddev,     \* self.bb_stddev
    bb,            \* self.bb, the band indicator
    warmUp,        \* the number of bars given to SetWarmUp
    observed,      \* history: every price the host has delivered, in order
    price,         \* self.Securities[self.symbol].Price
    invested,      \* self.Portfolio[self.symbol].Invested
    investedAt,    \* history: the value of invested the last TradeLogic read
    pc,            \* the host's next step: "data" or "sched"
    decision,      \* the outcome of the last TradeLogic run
    orders         \* history: the orders issued so far ("ENTER" / "EXIT"), in order

vars == <<params, phase, error, currencyPair, bb_period, bb_stddev, bb, warmUp,
          observed, price, invested, investedAt, pc, decision, orders>>

----------------------------------------------------------------------------
(* Bounds and input sets *)

MaxTicks == 6

Prices == {7, 10, 13}

Absent == [present |-> FALSE, text |-> <<>>]

AbsentPair == [present |-> FALSE, text |-> ""]

PairParams == {AbsentPair} \cup {[present |-> TRUE, text |-> t] : t \in {"", "GBPUSD"}}

\* Only positive lookbacks are drawn: what the host indicator does with a
\* lookback <= 0 is fixed neither by the source nor by the specification.
\* Non-positive values reach the program through bb_stddev below.
PeriodParams ==
    {Absent} \cup {[present |-> TRUE, text |-> t] : t \in {<<>>, <<"1">>, <<"2">>, <<"3">>}}

StdDevParams ==
    {Absent} \cup {[present |-> TRUE, text |-> t] : t \in {<<>>, <<"-", "1">>, <<"0">>, <<"1">>}}

----------------------------------------------------------------------------
(* Defaults *)

DefaultPair == "EURUSD"

DefaultPeriod == 20

DefaultStdDev == 2

----------------------------------------------------------------------------
(* int(text) and float(text) on decimal literals with an optional sign.    *)
(* The result is [ok, value]; ok = FALSE stands for ValueError.            *)

DigitChars == <<"0", "1", "2", "3", "4", "5", "6", "7", "8", "9">>

IsDigit(c) == \E i \in 1..Len(DigitChars) : DigitChars[i] = c

DigitValue(c) == (CHOOSE i \in 1..Len(DigitChars) : DigitChars[i] = c) - 1

RECURSIVE DigitsValue(_, _)
DigitsValue(text, acc) ==
    IF text = <<>> THEN acc
    ELSE DigitsValue(Tail(text), 10 * acc + DigitValue(Head(text)))

AllDigits(text) == text # <<>> /\ \A i \in 1..Len(text) : IsDigit(text[i])

ParseNumber(text) ==
    IF text # <<>> /\ Head(text) \in {"-", "+"}
    THEN IF AllDigits(Tail(text))
         THEN [ok |-> TRUE,
               value |-> (IF Head(text) = "-" THEN -1 ELSE 1) * DigitsValue(Tail(text), 0)]
         ELSE [ok |-> FALSE, value |-> 0]
    ELSE IF AllDigits(text)
         THEN [ok |-> TRUE, value |-> DigitsValue(text, 0)]
         ELSE [ok |-> FALSE, value |-> 0]

ParseInt(text) == ParseNumber(text)

ParseFloat(text) == ParseNumber(text)

----------------------------------------------------------------------------
(* Exact arithmetic on band values (rat + irr * sqrt(rad)) / den. *)

IntVal(p) == [rat |-> p, irr |-> 0, rad |-> 0, den |-> 1]

SignInt(a) == IF a > 0 THEN 1 ELSE IF a < 0 THEN -1 ELSE 0

\* the sign of a + b * sqrt(d), for d >= 0
SignSurd(a, b, d) ==
    IF b = 0 \/ d = 0 THEN SignInt(a)
    ELSE IF a = 0 THEN SignInt(b)
    ELSE IF SignInt(a) = SignInt(b) THEN SignInt(a)
    ELSE IF a * a > b * b * d THEN SignInt(a)
    ELSE IF a * a < b * b * d THEN SignInt(b)
    ELSE 0

\* the sign of x - y; x and y share their radicand unless one of them is rational
Compare(x, y) ==
    SignSurd(x.rat * y.den - y.rat * x.den,
             x.irr * y.den - y.irr * x.den,
             IF x.irr # 0 THEN x.rad ELSE y.rad)

Lt(x, y) == Compare(x, y) < 0

Gt(x, y) == Compare(x, y) > 0

----------------------------------------------------------------------------
(* The band indicator: a window of the last `period` prices, the flag      *)
(* `ready`, and the band derived from the window.                          *)

RECURSIVE Sum(_)
Sum(w) == IF w = <<>> THEN 0 ELSE Head(w) + Sum(Tail(w))

RECURSIVE SumSq(_)
SumSq(w) == IF w = <<>> THEN 0 ELSE Head(w) * Head(w) + SumSq(Tail(w))

\* a new indicator: nothing observed yet
BB(period, k) == [period |-> period, k |-> k, window |-> <<>>, ready |-> FALSE]

\* observe(price): append, evicting the oldest element of a full window
observe(b, p) ==
    LET w == IF Len(b.window) >= b.period
             THEN Append(Tail(b.window), p)
             ELSE Append(b.window, p)
    IN  [b EXCEPT !.window = w, !.ready = b.ready \/ Len(w) >= b.period]

is_ready(b) == b.ready

\* period^2 times the population variance of the window:
\* variance = SumSq / period - (Sum / period)^2
VarianceNum(b) == b.period * SumSq(b.window) - Sum(b.window) * Sum(b.window)

\* mean + c * sqrt(variance) = (Sum + c * sqrt(VarianceNum)) / period
BandValue(b, c) ==
    [rat |-> Sum(b.window), irr |-> c, rad |-> VarianceNum(b), den |-> b.period]

NotReady == [error |-> "NotReady"]

IsError(r) == "error" \in DOMAIN r

middle(b) == IF is_ready(b) THEN BandValue(b, 0) ELSE NotReady

upper(b) == IF is_ready(b) THEN BandValue(b, b.k) ELSE NotReady

lower(b) == IF is_ready(b) THEN BandValue(b, -b.k) ELSE NotReady

Band(b) == [middle |-> middle(b), upper |-> upper(b), lower |-> lower(b)]

----------------------------------------------------------------------------
(* Initialize: parameters, indicator, warm-up *)

\* self.GetParameter("pair"), then "if not self.currencyPair": None and "" are falsy
ResolvePair(p) == IF ~p.present \/ p.text = "" THEN DefaultPair ELSE p.text

\* int(bb_period_param) if bb_period_param is not None else 20
ResolvePeriod(p) ==
    IF p.present THEN ParseInt(p.text) ELSE [ok |-> TRUE, value |-> DefaultPeriod]

\* float(bb_stddev_param) if bb_stddev_param is not None else 2.0
ResolveStdDev(p) ==
    IF p.present THEN ParseFloat(p.text) ELSE [ok |-> TRUE, value |-> DefaultStdDev]

\* Mutant of CreateIndicator: the lookback handed to the indicator is off by one.
CreateIndicatorOffByOne(period, stddev) == BB(period + 1, stddev)

\* Mutant of CreateIndicator: the multiplier is not handed over; the band is one deviation wide.
CreateIndicatorUnitMultiplier(period, stddev) == BB(period, 1)

\* self.BB(self.symbol, self.bb_period, self.bb_stddev, ...)
CreateIndicator(period, stddev) == BB(period, stddev)

\* self.SetWarmUp(self.bb_period)
WarmUpBars(period) == period

NoIndicator == BB(0, 0)

Init ==
    /\ params \in [pair : PairParams, bb_period : PeriodParams, bb_stddev : StdDevParams]
    /\ phase = "start"
    /\ error = ""
    /\ currencyPair = ""
    /\ bb_period = 0
    /\ bb_stddev = 0
    /\ bb = NoIndicator
    /\ warmUp = 0
    /\ observed = <<>>
    /\ price = 0
    /\ invested = FALSE
    /\ investedAt = FALSE
    /\ pc = "data"
    /\ decision = "HOLD"
    /\ orders = <<>>

Initialize ==
    /\ phase = "start"
    /\ currencyPair' = ResolvePair(params.pair)
    /\ LET pr == ResolvePeriod(params.bb_period)
           sd == ResolveStdDev(params.bb_stddev)
       IN  IF ~pr.ok
           THEN /\ phase' = "failed"
                /\ error' = "ValueError"
                /\ UNCHANGED <<bb_period, bb_stddev, bb, warmUp>>
           ELSE IF ~sd.ok
           THEN /\ phase' = "failed"
                /\ error' = "ValueError"
                /\ bb_period' = pr.value
                /\ UNCHANGED <<bb_stddev, bb, warmUp>>
           ELSE /\ phase' = "running"
                /\ error' = ""
                /\ bb_period' = pr.value
                /\ bb_stddev' = sd.value
                /\ bb' = CreateIndicator(pr.value, sd.value)
                /\ warmUp' = WarmUpBars(pr.value)
    /\ UNCHANGED <<params, observed, price, invested, investedAt, pc, decision, orders>>

----------------------------------------------------------------------------
(* The host: one price per tick, then the scheduled callback *)

\* self.IsWarmingUp: the warm-up bars have not all been delivered
IsWarmingUp == Len(observed) < warmUp

\* the feed delivers the latest price: the security's price and the indicator update
OnData(p) ==
    /\ phase = "running"
    /\ pc = "data"
    /\ Len(observed) < MaxTicks
    /\ price' = p
    /\ bb' = observe(bb, p)
    /\ observed' = Append(observed, p)
    /\ pc' = "sched"
    /\ UNCHANGED <<params, phase, error, currencyPair, bb_period, bb_stddev, warmUp,
                   invested, investedAt, decision, orders>>

\* SetHoldings(symbol, 1.0) opens the position, Liquidate(symbol) closes it
ApplyDecision(inv, d) ==
    IF d = "ENTER" THEN TRUE ELSE IF d = "EXIT" THEN FALSE ELSE inv

----------------------------------------------------------------------------
(* TradeLogic *)

\* Mutant of evaluate: the exit compares against the upper band.
evaluateExitAtUpper(p, band, inv) ==
    IF ~inv /\ Lt(IntVal(p), band.lower) THEN "ENTER"
    ELSE IF inv /\ Gt(IntVal(p), band.upper) THEN "EXIT"
    ELSE "HOLD"

\* Mutant of evaluate: the entry does not look at the position.
evaluateEntryIgnoresPosition(p, band, inv) ==
    IF Lt(IntVal(p), band.lower) THEN "ENTER"
    ELSE IF inv /\ Gt(IntVal(p), band.middle) THEN "EXIT"
    ELSE "HOLD"

\* the if / elif of TradeLogic on the values it reads
evaluate(p, band, inv) ==
    IF ~inv /\ Lt(IntVal(p), band.lower) THEN "ENTER"
    ELSE IF inv /\ Gt(IntVal(p), band.middle) THEN "EXIT"
    ELSE "HOLD"

\* the band value the if / elif reads: LowerBand when not invested, MiddleBand when invested
BandRead(b, inv) == IF ~inv THEN lower(b) ELSE middle(b)

\* Mutant of TradeDecision: the IsWarmingUp guard is missing.
TradeDecisionNoWarmUpGuard(warming, p, b, inv) ==
    IF IsError(BandRead(b, inv)) THEN "NotReady"
    ELSE evaluate(p, Band(b), inv)

\* the outcome of one run of TradeLogic; "NotReady" when a band read fails
TradeDecision(warming, p, b, inv) ==
    IF warming THEN "HOLD"
    ELSE IF IsError(BandRead(b, inv)) THEN "NotReady"
    ELSE evaluate(p, Band(b), inv)

\* Mutant of IndicatorAfterTradeLogic: the callback feeds the price to the indicator.
IndicatorUpdatedByTradeLogic(b, p) == observe(b, p)

\* the indicator after TradeLogic: the callback only reads it
IndicatorAfterTradeLogic(b, p) == b

TradeLogic ==
    /\ phase = "running"
    /\ pc = "sched"
    /\ LET d == TradeDecision(IsWarmingUp, price, bb, invested)
       IN  /\ decision' = d
           /\ invested' = ApplyDecision(invested, d)
           /\ orders' = IF d \in {"ENTER", "EXIT"} THEN Append(orders, d) ELSE orders
           /\ phase' = IF d = "NotReady" THEN "failed" ELSE phase
           /\ error' = IF d = "NotReady" THEN "NotReady" ELSE error
    /\ investedAt' = invested
    /\ bb' = IndicatorAfterTradeLogic(bb, price)
    /\ pc' = "data"
    /\ UNCHANGED <<params, currencyPair, bb_period, bb_stddev, warmUp, observed, price>>

Next ==
    \/ Initialize
    \/ \E p \in Prices : OnData(p)
    \/ TradeLogic

Spec == Init /\ [][Next]_vars

----------------------------------------------------------------------------
(* Properties *)

Running == phase = "running"

\* TradeLogic ran on the latest price and found the warm-up complete
Traded == Running /\ pc = "data" /\ observed # <<>> /\ ~IsWarmingUp

Min(a, b) == IF a <= b THEN a ELSE b

\* the rational number num / d, d > 0
Rational(num, d) == [rat |-> num, irr |-> 0, rad |-> 0, den |-> d]

Ge(x, y) == Compare(x, y) >= 0

Eq(x, y) == Compare(x, y) = 0

LastN(s, n) == SubSeq(s, Len(s) - n + 1, Len(s))

\* upper bands tried in place of the indicator's own
UpperProbes == {IntVal(u) : u \in {0, 10, 100}}

\* C1: the decision is ENTER exactly when not invested and price < lower, EXIT
\* exactly when invested and price > middle, and HOLD otherwise; replacing the
\* upper band by any other value changes no decision.  Checked on the decision
\* every completed TradeLogic run took, and on evaluate for both values of
\* invested and every upper band probed at each band the run reaches.
C1_EvaluateRule ==
    /\ Traded =>
          /\ decision = "ENTER" <=> (~investedAt /\ Lt(IntVal(price), lower(bb)))
          /\ decision = "EXIT" <=> (investedAt /\ Gt(IntVal(price), middle(bb)))
          /\ decision = "HOLD" <=>
                \/ ~investedAt /\ Ge(IntVal(price), lower(bb))
                \/ investedAt /\ Ge(middle(bb), IntVal(price))
    /\ (Running /\ is_ready(bb)) =>
          \A inv \in BOOLEAN, p \in Prices, u \in UpperProbes :
             LET d == evaluate(p, [Band(bb) EXCEPT !.upper = u], inv)
             IN  /\ d = "ENTER" <=> (~inv /\ Lt(IntVal(p), lower(bb)))
                 /\ d = "EXIT" <=> (inv /\ Gt(IntVal(p), middle(bb)))
                 /\ d \in {"ENTER", "EXIT", "HOLD"}
                 /\ d = evaluate(p, Band(bb), inv)

\* an exit (so an entry before it) taken with a positive multiplier, at a price
\* that is above the middle band and not above the upper band
C1_Witness ==
    /\ Traded /\ decision = "EXIT" /\ bb_stddev > 0
    /\ ~Gt(IntVal(price), upper(bb))

\* C10: the orders issued alternate ENTER, EXIT, ENTER, ... beginning with
\* ENTER, the position is held exactly after an ENTER, and a run of TradeLogic
\* issues ENTER only when it read invested = FALSE and EXIT only when it read
\* invested = TRUE.
C10_OrdersAlternate ==
    /\ \A i \in 1..Len(orders) : orders[i] = IF i % 2 = 1 THEN "ENTER" ELSE "EXIT"
    /\ invested <=> (Len(orders) % 2 = 1)
    /\ (pc = "data" /\ decision = "ENTER") => ~investedAt /\ invested
    /\ (pc = "data" /\ decision = "EXIT") => investedAt /\ ~invested

\* an entry, an exit and a second entry have been issued
C10_Witness == Running /\ Len(orders) >= 3 /\ bb_stddev > 0

\* C2: with period >= 1 and fewer than period observations the indicator is
\* not ready, middle, upper and lower each fail with NotReady, and TradeLogic
\* has taken no action: no order, and no failed band read.
C2_WarmUpGuards ==
    (phase # "start" /\ error # "ValueError" /\ bb_period >= 1
        /\ Len(observed) < bb_period) =>
       /\ ~is_ready(bb)
       /\ middle(bb) = NotReady /\ upper(bb) = NotReady /\ lower(bb) = NotReady
       /\ decision = "HOLD"
       /\ orders = <<>>
       /\ ~invested
       /\ Running

\* TradeLogic has run during the warm-up, on a price below every earlier one
C2_Witness ==
    /\ Running /\ pc = "data" /\ Len(observed) = 2 /\ bb_period = 3
    /\ observed[2] < observed[1]

\* the mean of the n prices of w
MeanOf(w, n) == Rational(Sum(w), n)

\* C3: after n observations the window holds exactly the last min(n, period)
\* observed prices in arrival order, its length never exceeds period, and once
\* period or more prices were observed the mean and the variance are those of
\* the last period observations.
C3_SlidingWindow ==
    Running =>
       /\ bb.window = LastN(observed, Min(Len(observed), bb_period))
       /\ Len(bb.window) <= bb_period
       /\ Len(observed) >= bb_period =>
             LET w == LastN(observed, bb_period)
             IN  /\ is_ready(bb)
                 /\ Eq(middle(bb), MeanOf(w, bb_period))
                 /\ VarianceNum(bb) = bb_period * SumSq(w) - Sum(w) * Sum(w)

\* two prices beyond capacity have been observed, and the evicted ones differ
\* from the ones kept
C3_Witness ==
    /\ Running /\ bb_period = 3 /\ Len(observed) = bb_period + 2
    /\ observed[1] # observed[4] /\ observed[2] # observed[5]
    /\ bb.window = <<observed[3], observed[4], observed[5]>>

\* C4: whenever the indicator is ready, upper >= middle >= lower, and either
\* equality holds only when the variance of the window is 0.
C4_BandOrdered ==
    (Running /\ is_ready(bb)) =>
       /\ Ge(upper(bb), middle(bb))
       /\ Ge(middle(bb), lower(bb))
       /\ (Eq(upper(bb), middle(bb)) \/ Eq(middle(bb), lower(bb))) => VarianceNum(bb) = 0

\* the value int() / float() reads from a parameter that is present and well formed
Configured(p, default) ==
    IF ~p.present THEN default
    ELSE IF ParseNumber(p.text).ok THEN ParseNumber(p.text).value
    ELSE default

\* C5: a period <= 0 or a multiplier <= 0 fails with InvalidParameter at
\* construction: no indicator is created and the run never reaches the state
\* in which ticks are evaluated.
C5_RejectsNonPositive ==
    (phase # "start"
        /\ \/ Configured(params.bb_period, DefaultPeriod) <= 0
           \/ Configured(params.bb_stddev, DefaultStdDev) <= 0) =>
       /\ phase = "failed"
       /\ error = "InvalidParameter"
       /\ bb = NoIndicator
       /\ observed = <<>>

\* C6: with period >= 1, after exactly period observations all equal to v the
\* indicator is ready and middle = upper = lower = v; no read fails.
C6_ConstantRun ==
    (Running /\ bb_period >= 1 /\ Len(observed) = bb_period
        /\ \A i \in 1..Len(observed) : observed[i] = observed[1]) =>
       /\ is_ready(bb)
       /\ ~IsError(middle(bb)) /\ ~IsError(upper(bb)) /\ ~IsError(lower(bb))
       /\ Eq(middle(bb), IntVal(observed[1]))
       /\ Eq(upper(bb), IntVal(observed[1]))
       /\ Eq(lower(bb), IntVal(observed[1]))
       /\ VarianceNum(bb) = 0
       /\ decision = "HOLD"

\* three equal prices were observed under period 3, and TradeLogic has run on them
C6_Witness ==
    /\ Running /\ bb_period = 3 /\ observed = <<13, 13, 13>> /\ pc = "data"
    /\ bb_stddev > 0

\* C7: with period 3 and multiplier 2, after 10, 10, 10 the band is 10, 10, 10;
\* after the next price 13 the window is <<10, 10, 13>>, middle = 11, the
\* variance is 2 (the divisor is period), lower is 8.17 and upper 13.83 to two
\* decimals, and with invested = FALSE evaluate holds at 13 and enters at 7.
C7_Scenario ==
    (Running /\ bb_period = 3 /\ bb_stddev = 2) =>
       /\ observed = <<10, 10, 10>> =>
             /\ is_ready(bb)
             /\ Eq(middle(bb), IntVal(10))
             /\ Eq(upper(bb), IntVal(10))
             /\ Eq(lower(bb), IntVal(10))
       /\ observed = <<10, 10, 10, 13>> =>
             /\ bb.window = <<10, 10, 13>>
             /\ Eq(middle(bb), IntVal(11))
             /\ VarianceNum(bb) = 2 * bb_period * bb_period
             /\ Gt(lower(bb), Rational(8165, 1000)) /\ Lt(lower(bb), Rational(8175, 1000))
             /\ Gt(upper(bb), Rational(13825, 1000)) /\ Lt(upper(bb), Rational(13835, 1000))
             /\ evaluate(13, Band(bb), FALSE) = "HOLD"
             /\ evaluate(7, Band(bb), FALSE) = "ENTER"
             /\ pc = "data" => decision = "HOLD"

\* the scenario's state, after TradeLogic ran on the price 13
C7_Witness ==
    /\ Running /\ bb_period = 3 /\ bb_stddev = 2
    /\ observed = <<10, 10, 10, 13>> /\ pc = "data"

\* C8: only the delivery of a price (observe) changes the indicator: a run of
\* TradeLogic, which reads the band and evaluates, leaves the window, the ready
\* flag and with them the mean, the variance and the band as they were.
C8_ReadsDoNotMutate ==
    [][(Running /\ bb' # bb) => (pc = "data" /\ pc' = "sched"
                                   /\ bb' = observe(bb, price')
                                   /\ observed' = Append(observed, price'))]_vars

\* TradeLogic has run on a ready indicator and issued an order
C8_Witness ==
    /\ Traded /\ is_ready(bb) /\ decision = "ENTER" /\ bb_stddev > 0
    /\ bb.window = LastN(observed, bb_period)

AbsentOrEmpty(p) == ~p.present \/ p.text = <<>>

AbsentOrEmptyPair(p) == ~p.present \/ p.text = ""

\* C9: after startup every parameter that is absent or empty has its default
\* (20, 2.0, "EURUSD") and startup raised no error; from then on period,
\* multiplier and instrument never change.
C9_DefaultsAndImmutable ==
    /\ [](phase # "start" =>
            /\ AbsentOrEmptyPair(params.pair) => (currencyPair = DefaultPair /\ error = "")
            /\ AbsentOrEmpty(params.bb_period) => (bb_period = DefaultPeriod /\ error = "")
            /\ AbsentOrEmpty(params.bb_stddev) => (bb_stddev = DefaultStdDev /\ error = ""))
    /\ [][phase # "start" =>
            /\ currencyPair' = currencyPair
            /\ bb_period' = bb_period
            /\ bb_stddev' = bb_stddev
            /\ bb'.period = bb.period
            /\ bb'.k = bb.k]_vars

====
